---- MODULE Spec2Model ----
(***************************************************************************)
(* Model of restinio::async_chain (dev/restinio/async_chain/common.hpp):   *)
(* the chain driver next(), its visitor on_next_result_visitor_t, the two  *)
(* response helpers, and the controller interface they drive.              *)
(*                                                                         *)
(* One request travels through a chain of handlers.  The controller is a   *)
(* single heap object reached through a std::unique_ptr; every function    *)
(* frame and the deferred-work slot hold a flag telling whether their      *)
(* unique_ptr is non-null.  Execution contexts (threads) are call stacks.  *)
(***************************************************************************)
EXTENDS Integers, Sequences, FiniteSets, TLC

\* Longest chain of handlers explored.
MaxN == 3
\* Number of distinct request handles a controller may be created for.
NumReq == 2

Requests == 1..NumReq
\* Every handler position is dispatched at most once, so at most one
\* continuation per handler runs in a context of its own.
MaxThreads == MaxN + 1
Threads == 1..MaxThreads

VARIABLES
    chain,      \* m_handlers of the concrete chain: what each handler does
    origReq,    \* the request the chain built the controller for
    ctl,        \* the controller object: [req, pos, alive]
    stacks,     \* call stack of every execution context
    started,    \* execution contexts started so far
    deferred,   \* a handler's stored unique_ptr holds the controller
    responses,  \* responses created by the driver, in order
    invoked,    \* handler invocations made by the driver, in order
    calls,      \* one record per call of next(), in call order
    queries,    \* every use of the controller made by the driver
    m_books,    \* sample application: the book collection
    last        \* sample application: the request handled last, its outcome

\* State of the chain traversal and state of the sample application.
chainVars == << chain, origReq, ctl, stacks, started, deferred, responses,
                invoked, calls, queries >>
bookVars == << m_books, last >>

vars == << chain, origReq, ctl, stacks, started, deferred, responses,
           invoked, calls, queries, m_books, last >>

-----------------------------------------------------------------------------
\* schedule_result_t and the handlers of a chain.

schedule_result_t == {"ok", "failure"}

\* A handler is a std::function taking the controller by value.  What it does
\* with it, and what it returns:
\*   ok / failure    returns at once (the controller dies with its parameter)
\*   pass            calls next(std::move(controller)), then returns ok
\*   defer           moves the controller into stored work, returns ok; the
\*                   work later calls next() from another execution context
\*   pass_failure / defer_failure
\*                   as pass / defer, but the handler then reports failure
\*                   although it has handed the request on
ContractKinds == {"ok", "failure", "pass", "defer"}
AllKinds == ContractKinds \cup {"pass_failure", "defer_failure"}

Passes(k) == k \in {"pass", "pass_failure"}
Defers(k) == k \in {"defer", "defer_failure"}
ReturnOf(k) ==
    IF k \in {"failure", "pass_failure", "defer_failure"}
    THEN "failure" ELSE "ok"

ChainsOver(K) == UNION { [1..n -> K] : n \in 0..MaxN }

\* Handler at 0-based position i of the chain.
HandlerAt(i) == chain[i + 1]

-----------------------------------------------------------------------------
\* Stack helpers.

Top(s) == s[Len(s)]
SetTop(s, f) == [s EXCEPT ![Len(s)] = f]
Pop(s) == SubSeq(s, 1, Len(s) - 1)

\* A frame of next(): `own` is whether its parameter `controller` is non-null.
NextFrame(id) ==
    [fn |-> "next", pc |-> "start", own |-> TRUE, call |-> id, idx |-> -1,
     var |-> "none", h |-> -1, req |-> << >>, sr |-> "none"]

\* A frame of a handler: `own` is whether its parameter is non-null.
HandlerFrame(id, i) ==
    [fn |-> "handler", pc |-> "body", own |-> TRUE, call |-> id, idx |-> -1,
     var |-> "none", h |-> i, req |-> << >>, sr |-> "none"]

CallRecord(t) ==
    [t |-> t, onNexts |-> 0, idx |-> -1, var |-> "none", h |-> -1,
     req |-> << >>, sr |-> "none"]

Running(t) == stacks[t] # << >>
InNext(t, p) ==
    /\ Running(t)
    /\ Top(stacks[t]).fn = "next"
    /\ Top(stacks[t]).pc = p
InHandler(t, p) ==
    /\ Running(t)
    /\ Top(stacks[t]).fn = "handler"
    /\ Top(stacks[t]).pc = p

\* A use of the controller through a frame's unique_ptr.
Query(f, op) == [call |-> f.call, op |-> op, own |-> f.own, alive |-> ctl.alive]

-----------------------------------------------------------------------------
\* The controller (async_handling_controller_t).

request_handle(c) == c.req

\* on_next() of a chain over `n` handlers, having read position `i`:
\* the handler at that position, or the exhaustion marker.
on_next_result(i, n) ==
    IF i >= n THEN [var |-> "no_more", h |-> -1]
    ELSE [var |-> "handler", h |-> i]

\* Variant: on_next() leaves the position where it was.
on_next_state_NoAdvance(c, i) == [c EXCEPT !.pos = i]

\* Variant: on_next() rebinds the controller to another request.
on_next_state_Rebinds(c, i) ==
    [c EXCEPT !.pos = i + 1, !.req = (c.req % NumReq) + 1]

\* The controller on_next() leaves behind, having read position `i`: one
\* step further, bound to the same request.
on_next_state(c, i) == [c EXCEPT !.pos = i + 1]

-----------------------------------------------------------------------------
\* The response helpers.

\* Variant: the helper answers with the status its name announces.
make_not_implemented_response_501(req, id) ==
    [status |-> "not_implemented", req |-> req, call |-> id]

make_not_implemented_response(req, id) ==
    [status |-> "not_found", req |-> req, call |-> id]

\* Variant: the error helper answers with the status of the other helper.
make_internal_server_error_response_AsNotFound(req, id) ==
    [status |-> "not_found", req |-> req, call |-> id]

make_internal_server_error_response(req, id) ==
    [status |-> "internal_server_error", req |-> req, call |-> id]

-----------------------------------------------------------------------------
\* Sample application (dev/sample/express_router/main.cpp): data.

\* Most books the collection is let grow to.
MaxBooks == 3

\* A request body is a sequence of pieces: the two tags, the separator, and
\* pieces of other text.
author_tag == "author:"
title_tag == "title:"
separator == ";;;"

book_t(author, title) == [m_author |-> author, m_title |-> title]

\* The collection main() starts the server with.
InitialBooks ==
    << book_t(<< "Agatha Christie" >>, << "Murder on the Orient Express" >>),
       book_t(<< "Agatha Christie" >>, << "Sleeping Murder" >>),
       book_t(<< "B. Stroustrup" >>, << "The C++ Programming Language" >>) >>

\* std::string_view::substr(pos) and substr(0, n).
SubstrFrom(body, pos) == SubSeq(body, pos + 1, Len(body))
SubstrTo(body, n) == SubSeq(body, 1, IF n < Len(body) THEN n ELSE Len(body))

\* std::string_view::find(separator): 0-based position, -1 for npos.
Find(body) ==
    IF \E i \in 1..Len(body) : body[i] = separator
    THEN (CHOOSE i \in 1..Len(body) :
            /\ body[i] = separator
            /\ \A j \in 1..(i - 1) : body[j] # separator) - 1
    ELSE -1

Thrown(what) == [ok |-> FALSE, what |-> what, book |-> book_t(<< >>, << >>)]
Parsed(b) == [ok |-> TRUE, what |-> "", book |-> b]

\* deserialize(), lines 50-75: the title, given the author and the rest.
deserialize_title(author, body2) ==
    IF SubstrTo(body2, 1) # << title_tag >>
    THEN Thrown("no 'title:' tag")
    ELSE LET body3 == SubstrFrom(body2, 1)
             n == Find(body3)
         IN IF body3 = << >> THEN Thrown("no title")
            ELSE IF n = -1 THEN Parsed(book_t(author, body3))
            ELSE IF n = 0 THEN Thrown("no title")
            ELSE IF SubstrFrom(body3, n + 1) # << >>
                 THEN Thrown("additional data found")
                 ELSE Parsed(book_t(author, SubstrTo(body3, n)))

\* deserialize(), lines 23-76.
deserialize(body) ==
    IF SubstrTo(body, 1) # << author_tag >>
    THEN Thrown("no 'author:' tag")
    ELSE LET body1 == SubstrFrom(body, 1)
             n == Find(body1)
         IN IF n = -1 THEN Thrown("no value separator #1")
            ELSE IF n = 0 THEN Thrown("no author name")
            ELSE deserialize_title(SubstrTo(body1, n),
                                   SubstrFrom(body1, n + 1))

\* Request bodies tried: one for every throw of deserialize() and for both
\* ways it returns a book.
Bodies ==
    { << >>,
      << author_tag, "x" >>,
      << author_tag, separator, title_tag, "x" >>,
      << author_tag, "x", separator, "x" >>,
      << author_tag, "x", separator, title_tag >>,
      << author_tag, "x", separator, title_tag, separator >>,
      << author_tag, "x", separator, title_tag, "y" >>,
      << author_tag, "y", separator, title_tag, "x", separator >>,
      << author_tag, "x", separator, title_tag, "y", separator, "x" >> }

\* booknum - 1 in std::uint32_t arithmetic: 0 wraps to the largest value,
\* 2^32 - 1.  That is past the integers TLC has, so the largest of those
\* stands for it; all that matters is that it is beyond every size.
MinusOneU32(x) == IF x = 0 THEN 2147483647 ELSE x - 1

\* Values of the booknum parameter tried: 0, every valid number, and numbers
\* past the end of the largest collection.
BookNums == 0..(MaxBooks + 1)

Methods == {"GET", "POST", "PUT", "DELETE", "HEAD"}
Paths == {"/", "/author/:author", "/:booknum", "/other"}

\* A request: for "/author/:author", `escaped` tells whether the parameter
\* is valid percent-encoding.
Request(m, p, n, b, e) ==
    [method |-> m, path |-> p, booknum |-> n, body |-> b, escaped |-> e]

\* Requests tried: every method on every path; a body where a handler reads
\* one, a booknum where the path has one.
Requests_t ==
    { Request(m, "/", 0, << >>, TRUE) : m \in Methods \ {"POST"} }
    \cup { Request("POST", "/", 0, b, TRUE) : b \in Bodies }
    \cup { Request(m, "/author/:author", 0, << >>, e) :
                m \in Methods, e \in BOOLEAN }
    \cup { Request(m, "/:booknum", n, << >>, TRUE) :
                m \in Methods \ {"PUT"}, n \in BookNums }
    \cup { Request("PUT", "/:booknum", n, b, TRUE) :
                n \in BookNums, b \in Bodies }
    \cup { Request(m, "/other", 0, << >>, TRUE) : m \in Methods }

NoRequest ==
    [method |-> "GET", path |-> "/other", booknum |-> 0, body |-> << >>,
     escaped |-> TRUE]

\* Outcome of handling a request: the handler run, the status of the
\* response, the accesses made to the collection (index, size at the time)
\* and the collection before.
Outcome(req, handler, status, acc, before) ==
    [req |-> req, handler |-> handler, status |-> status, acc |-> acc,
     before |-> before]

Access(i, books) == [idx |-> i, size |-> Len(books)]

SampleInit ==
    /\ m_books = InitialBooks
    /\ last = Outcome(NoRequest, "none", "none", {}, << >>)

-----------------------------------------------------------------------------
\* Init: the chain has built a controller at position 0 for origReq and
\* called next() with it.

InitWith(K) ==
    /\ chain \in ChainsOver(K)
    /\ origReq \in Requests
    /\ ctl = [req |-> origReq, pos |-> 0, alive |-> TRUE]
    /\ stacks = [t \in Threads |-> IF t = 1 THEN << NextFrame(1) >> ELSE << >>]
    /\ started = 1
    /\ deferred = FALSE
    /\ responses = << >>
    /\ invoked = << >>
    /\ calls = << CallRecord(1) >>
    /\ queries = << >>
    /\ SampleInit

Init == InitWith(ContractKinds)
InitAny == InitWith(AllKinds)

-----------------------------------------------------------------------------
\* next(): std::visit( visitor{ controller }, controller->on_next() )

\* on_next() is entered: it reads the current position.
OnNextEnter(t) ==
    /\ InNext(t, "start")
    /\ LET f == Top(stacks[t]) IN
        /\ stacks' = [stacks EXCEPT ![t] =
                SetTop(@, [f EXCEPT !.pc = "in_on_next", !.idx = ctl.pos])]
        /\ queries' = Append(queries, Query(f, "on_next"))
        /\ calls' = [calls EXCEPT ![f.call].onNexts = @ + 1]
    /\ UNCHANGED << bookVars, chain, origReq, ctl, started, deferred, responses, invoked >>

\* on_next() returns: the position is advanced, the result is the variant.
OnNextExit(t) ==
    /\ InNext(t, "in_on_next")
    /\ LET f == Top(stacks[t])
           r == on_next_result(f.idx, Len(chain))
       IN
        /\ ctl' = on_next_state(ctl, f.idx)
        /\ stacks' = [stacks EXCEPT ![t] =
                SetTop(@, [f EXCEPT !.pc = "visit", !.var = r.var, !.h = r.h])]
        /\ calls' = [calls EXCEPT ![f.call].idx = f.idx,
                                  ![f.call].var = r.var,
                                  ![f.call].h = r.h]
    /\ UNCHANGED << bookVars, chain, origReq, started, deferred, responses, invoked,
                    queries >>

\* visitor, handler case, line 158: const auto req = m_controller->request_handle()
VisitHandlerCapture(t) ==
    /\ InNext(t, "visit")
    /\ Top(stacks[t]).var = "handler"
    /\ LET f == Top(stacks[t]) IN
        /\ stacks' = [stacks EXCEPT ![t] =
                SetTop(@, [f EXCEPT !.pc = "captured",
                                    !.req = << request_handle(ctl) >>])]
        /\ queries' = Append(queries, Query(f, "request_handle"))
        /\ calls' = [calls EXCEPT ![f.call].req = << request_handle(ctl) >>]
    /\ UNCHANGED << bookVars, chain, origReq, ctl, started, deferred, responses,
                    invoked >>

\* Variant: the controller is handed to the handler without std::move, the
\* driver's pointer stays set.
VisitHandlerInvoke_NoMove(t) ==
    /\ InNext(t, "captured")
    /\ LET f == Top(stacks[t]) IN
        /\ stacks' = [stacks EXCEPT ![t] =
                Append(SetTop(@, [f EXCEPT !.pc = "in_handler"]),
                       HandlerFrame(f.call, f.h))]
        /\ invoked' = Append(invoked, [h |-> f.h, call |-> f.call])
    /\ UNCHANGED << bookVars, chain, origReq, ctl, started, deferred, responses, calls,
                    queries >>

\* visitor, handler case, line 159: handler( std::move(m_controller) )
VisitHandlerInvoke(t) ==
    /\ InNext(t, "captured")
    /\ LET f == Top(stacks[t]) IN
        /\ stacks' = [stacks EXCEPT ![t] =
                Append(SetTop(@, [f EXCEPT !.pc = "in_handler", !.own = FALSE]),
                       HandlerFrame(f.call, f.h))]
        /\ invoked' = Append(invoked, [h |-> f.h, call |-> f.call])
    /\ UNCHANGED << bookVars, chain, origReq, ctl, started, deferred, responses, calls,
                    queries >>

\* Variant: case ok lacks its break and falls into case failure.
VisitHandlerAfter_Fallthrough(t) ==
    /\ InNext(t, "after")
    /\ LET f == Top(stacks[t]) IN
        /\ stacks' = [stacks EXCEPT ![t] = SetTop(@, [f EXCEPT !.pc = "ret"])]
        /\ responses' = Append(responses,
                make_internal_server_error_response(f.req[1], f.call))
    /\ UNCHANGED << bookVars, chain, origReq, ctl, started, deferred, invoked, calls,
                    queries >>

\* Variant: after ok the driver goes on to the next handler by itself.
VisitHandlerAfter_Continue(t) ==
    /\ InNext(t, "after")
    /\ LET f == Top(stacks[t]) IN
        /\ stacks' = [stacks EXCEPT ![t] = SetTop(@,
                [f EXCEPT !.pc = IF f.sr = "ok" THEN "start" ELSE "ret"])]
        /\ responses' =
                IF f.sr = "failure"
                THEN Append(responses,
                        make_internal_server_error_response(f.req[1], f.call))
                ELSE responses
    /\ UNCHANGED << bookVars, chain, origReq, ctl, started, deferred, invoked, calls,
                    queries >>

\* Variant: after failure the driver tries the same handler once more.
VisitHandlerAfter_Retry(t) ==
    /\ InNext(t, "after")
    /\ LET f == Top(stacks[t])
           again == /\ f.sr = "failure"
                    /\ Cardinality({k \in 1..Len(invoked) :
                            invoked[k].h = f.h}) < 2
       IN
        /\ stacks' = [stacks EXCEPT ![t] = SetTop(@,
                [f EXCEPT !.pc = IF again THEN "captured" ELSE "ret"])]
        /\ responses' =
                IF f.sr = "failure" /\ ~again
                THEN Append(responses,
                        make_internal_server_error_response(f.req[1], f.call))
                ELSE responses
    /\ UNCHANGED << bookVars, chain, origReq, ctl, started, deferred, invoked, calls,
                    queries >>

\* Variant: the error response is created on m_controller->request_handle()
\* instead of the copy taken before the handler ran.
VisitHandlerAfter_UsesController(t) ==
    /\ InNext(t, "after")
    /\ LET f == Top(stacks[t]) IN
        /\ stacks' = [stacks EXCEPT ![t] = SetTop(@, [f EXCEPT !.pc = "ret"])]
        /\ responses' =
                IF f.sr = "failure"
                THEN Append(responses,
                   make_internal_server_error_response(request_handle(ctl),
                                                       f.call))
                ELSE responses
        /\ queries' =
                IF f.sr = "failure"
                THEN Append(queries, Query(f, "request_handle"))
                ELSE queries
    /\ UNCHANGED << bookVars, chain, origReq, ctl, started, deferred, invoked, calls >>

\* visitor, handler case, lines 160-167: the switch on the schedule result.
VisitHandlerAfter(t) ==
    /\ InNext(t, "after")
    /\ LET f == Top(stacks[t]) IN
        /\ stacks' = [stacks EXCEPT ![t] = SetTop(@, [f EXCEPT !.pc = "ret"])]
        /\ responses' =
                IF f.sr = "failure"
                THEN Append(responses,
                        make_internal_server_error_response(f.req[1], f.call))
                ELSE responses
    /\ UNCHANGED << bookVars, chain, origReq, ctl, started, deferred, invoked, calls,
                    queries >>

\* Variant: the exhausted case creates no response.
VisitNoMore_Silent(t) ==
    /\ InNext(t, "visit")
    /\ Top(stacks[t]).var = "no_more"
    /\ LET f == Top(stacks[t]) IN
        stacks' = [stacks EXCEPT ![t] = SetTop(@, [f EXCEPT !.pc = "ret"])]
    /\ UNCHANGED << bookVars, chain, origReq, ctl, started, deferred, invoked, calls,
                    responses, queries >>

\* visitor, exhausted case, line 174.
VisitNoMore(t) ==
    /\ InNext(t, "visit")
    /\ Top(stacks[t]).var = "no_more"
    /\ LET f == Top(stacks[t]) IN
        /\ stacks' = [stacks EXCEPT ![t] = SetTop(@, [f EXCEPT !.pc = "ret"])]
        /\ queries' = Append(queries, Query(f, "request_handle"))
        /\ responses' = Append(responses,
                make_not_implemented_response(request_handle(ctl), f.call))
    /\ UNCHANGED << bookVars, chain, origReq, ctl, started, deferred, invoked, calls >>

\* next() returns: its parameter is destroyed, and with it the controller if
\* the parameter still owns it.
NextReturn(t) ==
    /\ InNext(t, "ret")
    /\ LET f == Top(stacks[t]) IN
        /\ stacks' = [stacks EXCEPT ![t] = Pop(@)]
        /\ ctl' = IF f.own THEN [ctl EXCEPT !.alive = FALSE] ELSE ctl
    /\ UNCHANGED << bookVars, chain, origReq, started, deferred, responses, invoked,
                    calls, queries >>

-----------------------------------------------------------------------------
\* Handlers (user code reached through generic_async_request_handler_t).

\* The handler passes through: next( std::move(controller) ).
HandlerPass(t) ==
    /\ InHandler(t, "body")
    /\ Passes(HandlerAt(Top(stacks[t]).h))
    /\ LET f == Top(stacks[t])
           id == Len(calls) + 1
       IN
        /\ stacks' = [stacks EXCEPT ![t] =
                Append(SetTop(@, [f EXCEPT !.pc = "returning", !.own = FALSE]),
                       NextFrame(id))]
        /\ calls' = Append(calls, CallRecord(t))
    /\ UNCHANGED << bookVars, chain, origReq, ctl, started, deferred, responses, invoked,
                    queries >>

\* The handler moves the controller into work stored for another context.
HandlerDefer(t) ==
    /\ InHandler(t, "body")
    /\ Defers(HandlerAt(Top(stacks[t]).h))
    /\ LET f == Top(stacks[t]) IN
        stacks' = [stacks EXCEPT ![t] =
                SetTop(@, [f EXCEPT !.pc = "returning", !.own = FALSE])]
    /\ deferred' = TRUE
    /\ UNCHANGED << bookVars, chain, origReq, ctl, started, responses, invoked, calls,
                    queries >>

\* The handler returns its schedule result to the visitor.
HandlerReturn(t) ==
    /\ Running(t)
    /\ Top(stacks[t]).fn = "handler"
    /\ LET f == Top(stacks[t])
           k == HandlerAt(f.h)
           s == Pop(stacks[t])
       IN
        /\ \/ f.pc = "returning"
           \/ f.pc = "body" /\ ~Passes(k) /\ ~Defers(k)
        /\ stacks' = [stacks EXCEPT ![t] =
                SetTop(s, [Top(s) EXCEPT !.pc = "after", !.sr = ReturnOf(k)])]
        /\ ctl' = IF f.own THEN [ctl EXCEPT !.alive = FALSE] ELSE ctl
        /\ calls' = [calls EXCEPT ![f.call].sr = ReturnOf(k)]
    /\ UNCHANGED << bookVars, chain, origReq, started, deferred, responses, invoked,
                    queries >>

\* The stored work runs in an execution context of its own and calls next().
Resume ==
    /\ deferred
    /\ started < MaxThreads
    /\ started' = started + 1
    /\ deferred' = FALSE
    /\ stacks' = [stacks EXCEPT ![started + 1] = << NextFrame(Len(calls) + 1) >>]
    /\ calls' = Append(calls, CallRecord(started + 1))
    /\ UNCHANGED << bookVars, chain, origReq, ctl, responses, invoked, queries >>

-----------------------------------------------------------------------------

Next ==
    \/ \E t \in Threads : OnNextEnter(t)
    \/ \E t \in Threads : OnNextExit(t)
    \/ \E t \in Threads : VisitHandlerCapture(t)
    \/ \E t \in Threads : VisitHandlerInvoke(t)
    \/ \E t \in Threads : VisitHandlerAfter(t)
    \/ \E t \in Threads : VisitNoMore(t)
    \/ \E t \in Threads : NextReturn(t)
    \/ \E t \in Threads : HandlerPass(t)
    \/ \E t \in Threads : HandlerDefer(t)
    \/ \E t \in Threads : HandlerReturn(t)
    \/ Resume

Spec == Init /\ [][Next]_vars

\* The same driver facing handlers that also break the handler contract.
SpecAny == InitAny /\ [][Next]_vars

\* Nothing runs and nothing is stored: the traversal is over.
Done == (\A t \in Threads : ~Running(t)) /\ ~deferred

-----------------------------------------------------------------------------
\* Sample application: the router set up by server_handler().

\* A route: http_get / http_post / http_put / http_delete match one method,
\* none_of_methods(...) matches every method but the listed ones.
Route(none_of, methods, path, handler) ==
    [none_of |-> none_of, methods |-> methods, path |-> path,
     handler |-> handler]

\* The routes in the order server_handler() registers them.
Routes ==
    << Route(FALSE, {"GET"}, "/", "on_books_list"),
       Route(FALSE, {"POST"}, "/", "on_new_book"),
       Route(TRUE, {"GET", "POST"}, "/", "method_not_allowed"),
       Route(FALSE, {"GET"}, "/author/:author", "on_author_get"),
       Route(TRUE, {"GET"}, "/author/:author", "method_not_allowed"),
       Route(FALSE, {"GET"}, "/:booknum", "on_book_get"),
       Route(FALSE, {"PUT"}, "/:booknum", "on_book_update"),
       Route(FALSE, {"DELETE"}, "/:booknum", "on_book_delete"),
       Route(TRUE, {"GET", "POST", "DELETE"}, "/:booknum",
             "method_not_allowed") >>

RouteMatches(r, req) ==
    /\ r.path = req.path
    /\ IF r.none_of THEN req.method \notin r.methods
                    ELSE req.method \in r.methods

\* The express router tries the routes in registration order and runs the
\* first that matches; "none" when no route matches.
SelectHandler(req) ==
    IF \E i \in 1..Len(Routes) : RouteMatches(Routes[i], req)
    THEN Routes[CHOOSE i \in 1..Len(Routes) :
                    /\ RouteMatches(Routes[i], req)
                    /\ \A j \in 1..(i - 1) : ~RouteMatches(Routes[j], req)
               ].handler
    ELSE "none"

-----------------------------------------------------------------------------
\* Sample application: the handlers of books_handler_t.  Each yields the
\* collection it leaves, the status of its response and its accesses.

Result(books, status, acc) == [books |-> books, status |-> status, acc |-> acc]

\* std::vector::erase at a 0-based position.
Erase(books, i) == SubSeq(books, 1, i) \o SubSeq(books, i + 2, Len(books))

on_books_list(books) ==
    Result(books, "ok", {Access(i, books) : i \in 0..(Len(books) - 1)})

on_book_get(books, booknum) ==
    IF booknum > 0 /\ booknum <= Len(books)
    THEN Result(books, "ok", {Access(MinusOneU32(booknum), books)})
    ELSE Result(books, "ok", {})

on_author_get(books, escaped) ==
    IF escaped
    THEN Result(books, "ok", {Access(i, books) : i \in 0..(Len(books) - 1)})
    ELSE Result(books, "bad_request", {})

\* Variant: the book is appended first and filled in afterwards.
on_new_book_EmplaceFirst(books, body) ==
    IF deserialize(body).ok
    THEN Result(Append(books, deserialize(body).book), "ok", {})
    ELSE Result(Append(books, book_t(<< >>, << >>)), "bad_request", {})

on_new_book(books, body) ==
    IF deserialize(body).ok
    THEN Result(Append(books, deserialize(body).book), "ok", {})
    ELSE Result(books, "bad_request", {})

on_book_update(books, booknum, body) ==
    IF ~deserialize(body).ok THEN Result(books, "bad_request", {})
    ELSE IF booknum > 0 /\ booknum <= Len(books)
    THEN Result([books EXCEPT ![MinusOneU32(booknum) + 1] =
                    deserialize(body).book],
                "ok", {Access(MinusOneU32(booknum), books)})
    ELSE Result(books, "bad_request", {})

\* Variant: the test lacks `booknum > 0u`; what the out-of-range erase leaves
\* is anything, here the collection as it was.
on_book_delete_NoZeroCheck(books, booknum) ==
    IF booknum <= Len(books)
    THEN Result(IF booknum > 0 THEN Erase(books, MinusOneU32(booknum))
                ELSE books,
                "ok", {Access(MinusOneU32(booknum), books)})
    ELSE Result(books, "ok", {})

on_book_delete(books, booknum) ==
    IF booknum > 0 /\ booknum <= Len(books)
    THEN Result(Erase(books, MinusOneU32(booknum)), "ok",
                {Access(MinusOneU32(booknum), books)})
    ELSE Result(books, "ok", {})

method_not_allowed(books) == Result(books, "method_not_allowed", {})

\* No route matches: the router reports the request as not handled.
not_handled(books) == Result(books, "not_handled", {})

-----------------------------------------------------------------------------
\* Sample application: one request is routed and handled.

\* The requests the router hands to each handler.
Handlers ==
    {"on_books_list", "on_new_book", "on_author_get", "on_book_get",
     "on_book_update", "on_book_delete", "method_not_allowed", "none"}

Routed == [h \in Handlers |-> {req \in Requests_t : SelectHandler(req) = h}]

\* The handler selected for `req` has run with result `r`.
Handled(req, handler, r) ==
    /\ Len(r.books) <= MaxBooks
    /\ m_books' = r.books
    /\ last' = Outcome(req, handler, r.status, r.acc, m_books)
    /\ UNCHANGED chainVars

OnBooksList ==
    \E req \in Routed["on_books_list"] :
        Handled(req, "on_books_list", on_books_list(m_books))

OnNewBook ==
    \E req \in Routed["on_new_book"] :
        Handled(req, "on_new_book", on_new_book(m_books, req.body))

OnAuthorGet ==
    \E req \in Routed["on_author_get"] :
        Handled(req, "on_author_get", on_author_get(m_books, req.escaped))

OnBookGet ==
    \E req \in Routed["on_book_get"] :
        Handled(req, "on_book_get", on_book_get(m_books, req.booknum))

OnBookUpdate ==
    \E req \in Routed["on_book_update"] :
        Handled(req, "on_book_update",
                on_book_update(m_books, req.booknum, req.body))

OnBookDelete ==
    \E req \in Routed["on_book_delete"] :
        Handled(req, "on_book_delete", on_book_delete(m_books, req.booknum))

MethodNotAllowed ==
    \E req \in Routed["method_not_allowed"] :
        Handled(req, "method_not_allowed", method_not_allowed(m_books))

NotHandled ==
    \E req \in Routed["none"] :
        Handled(req, "none", not_handled(m_books))

\* No request is travelling through a handler chain.
ChainIdle ==
    /\ chain = << >>
    /\ origReq = 1
    /\ ctl = [req |-> 1, pos |-> 0, alive |-> FALSE]
    /\ stacks = [t \in Threads |-> << >>]
    /\ started = 0
    /\ deferred = FALSE
    /\ responses = << >>
    /\ invoked = << >>
    /\ calls = << >>
    /\ queries = << >>

InitBooks == ChainIdle /\ SampleInit

NextBooks ==
    \/ OnBooksList
    \/ OnNewBook
    \/ OnAuthorGet
    \/ OnBookGet
    \/ OnBookUpdate
    \/ OnBookDelete
    \/ MethodNotAllowed
    \/ NotHandled

SpecBooks == InitBooks /\ [][NextBooks]_vars

-----------------------------------------------------------------------------
\* Properties.

ResponsesWith(st) == {k \in 1..Len(responses) : responses[k].status = st}
InvokedHandlers == {invoked[k].h : k \in 1..Len(invoked)}
Declines(k) == k \in {"pass", "defer"}

\* C1: over one traversal (nested and resumed calls of next() included) the
\* driver creates at most one response on the request, and never both a
\* not-found and an internal-server-error response.
C1_AtMostOneResponse ==
    /\ Len(responses) <= 1
    /\ ~(ResponsesWith("not_found") # {} /\
         ResponsesWith("internal_server_error") # {})

\* A handler has passed through synchronously; the nested next() has created
\* the response and the outer driver call has seen its handler return.
C1_Witness ==
    /\ Len(responses) = 1
    /\ responses[1].call > 1
    /\ \E t \in Threads :
        /\ InNext(t, "ret")
        /\ Top(stacks[t]).call = 1
        /\ Top(stacks[t]).sr = "ok"
        /\ calls[responses[1].call].t = t

\* Position i is the first handler that returns ok, all before it decline by
\* re-entering next().
FirstOkAt(i) ==
    /\ i < Len(chain)
    /\ HandlerAt(i) = "ok"
    /\ \A j \in 0..(i - 1) : Declines(HandlerAt(j))

\* C2: when handler i is the first to return ok and handlers 0..i-1 pass
\* through, the handlers invoked are 0..i, each once and in index order, none
\* after i, and the driver creates no response.
C2_FirstOkStopsChain ==
    \A i \in 0..MaxN :
        FirstOkAt(i) =>
            /\ \A k \in 1..Len(invoked) : invoked[k].h = k - 1
            /\ Len(invoked) <= i + 1
            /\ Done => Len(invoked) = i + 1
            /\ responses = << >>

\* The traversal is over; handler 1 returned ok after handler 0 passed
\* through, and a later handler exists that was not invoked.
C2_Witness ==
    /\ Done
    /\ FirstOkAt(1)
    /\ Len(chain) > 2
    /\ HandlerAt(0) = "pass"
    /\ InvokedHandlers = {0, 1}

AllDecline == \A k \in 1..Len(chain) : Declines(chain[k])

\* C3: when every handler declines (or the chain is empty) the driver creates
\* exactly one response, a not-found response on the handle of the original
\* request.
C3_ExhaustedNotFound ==
    AllDecline =>
        /\ Len(responses) <= 1
        /\ \A k \in 1..Len(responses) :
            /\ responses[k].status = "not_found"
            /\ responses[k].req = origReq
        /\ chain = << >> => invoked = << >>
        /\ Done => /\ Len(responses) = 1
                   /\ Len(invoked) = Len(chain)

\* A chain of at least two declining handlers has been walked to its end and
\* the not-found response is there.
C3_Witness ==
    /\ Done
    /\ AllDecline
    /\ Len(chain) >= 2
    /\ HandlerAt(0) = "pass"
    /\ Len(responses) = 1

\* Calls of next() whose handler has returned failure.
FailedCalls == {c \in 1..Len(calls) : calls[c].sr = "failure"}

\* C4: when handler i returns failure the driver creates exactly one
\* internal-server-error response, on the handle it copied before invoking
\* the handler; handler i is invoked once and no later handler is invoked.
C4_FailureInternalError ==
    /\ \A k \in ResponsesWith("internal_server_error") :
        /\ responses[k].call \in FailedCalls
        /\ calls[responses[k].call].req = << responses[k].req >>
        /\ responses[k].req = origReq
    /\ \A c \in FailedCalls :
        /\ Cardinality({k \in 1..Len(invoked) : invoked[k].h = calls[c].h}) = 1
        /\ \A k \in 1..Len(invoked) : invoked[k].h <= calls[c].h
        /\ Cardinality({k \in 1..Len(responses) : responses[k].call = c}) <= 1
        /\ Done => /\ Len(responses) = 1
                   /\ responses[1].status = "internal_server_error"
                   /\ responses[1].call = c

\* Handler 1 returned failure after handler 0 handed the request on, the
\* error response is out and a later handler exists.
C4_Witness ==
    /\ Done
    /\ Len(chain) > 2
    /\ HandlerAt(1) = "failure"
    /\ FailedCalls # {}
    /\ Len(responses) = 1

\* C5: handlers are invoked in declared order; every call of next() performs
\* one on_next() and invokes at most one handler, so after a handler returned
\* ok a later handler runs only in a further call of next().
C5_OrderAndNoSelfAdvance ==
    /\ \A k \in 1..Len(invoked) : invoked[k].h = k - 1
    /\ \A c \in 1..Len(calls) : calls[c].onNexts <= 1
    /\ \A k, l \in 1..Len(invoked) : invoked[k].call = invoked[l].call => k = l
    /\ Len(invoked) <= Len(calls)
    /\ \A t \in Threads :
        (InNext(t, "after") \/ InNext(t, "ret")) =>
            calls[Top(stacks[t]).call].onNexts = 1

\* The first call of next() has seen its handler return ok and is over, and
\* a later handler has been invoked by a call made by the continuation.
C5_Witness ==
    /\ calls[1].sr = "ok"
    /\ ~Running(1)
    /\ \E k \in 1..Len(invoked) :
        /\ invoked[k].h >= 1
        /\ calls[invoked[k].call].t # 1

\* Places holding a non-null unique_ptr to the controller.
Holders ==
    Cardinality({ p \in Threads \X (1..(2 * MaxN + 2)) :
                    /\ p[2] <= Len(stacks[p[1]])
                    /\ stacks[p[1]][p[2]].own })
    + (IF deferred THEN 1 ELSE 0)

UsesController(t) ==
    \/ InNext(t, "start")
    \/ InNext(t, "in_on_next")
    \/ InNext(t, "visit")
    \/ InNext(t, "captured")

\* C6: with handlers that hand the controller to another execution context,
\* at most one place owns the controller at any moment, at most one context
\* is inside on_next(), only the owner uses the controller, and no chain
\* position is read or dispatched twice.
C6_SingleOwner ==
    /\ Holders = (IF ctl.alive THEN 1 ELSE 0)
    /\ Cardinality({t \in Threads : InNext(t, "in_on_next")}) <= 1
    /\ Cardinality({t \in Threads : UsesController(t)}) <= 1
    /\ \A t \in Threads : UsesController(t) => Top(stacks[t]).own
    /\ \A k, l \in 1..Len(invoked) : invoked[k].h = invoked[l].h => k = l
    /\ \A c, e \in 1..Len(calls) :
        (calls[c].var # "none" /\ calls[c].idx = calls[e].idx) => c = e

\* The resumed call is inside on_next() in its own context while the driver
\* call that dispatched the deferring handler has not returned yet.
C6_Witness ==
    \E t, u \in Threads :
        /\ t # u
        /\ Running(t)
        /\ Top(stacks[t]).fn = "next"
        /\ Top(stacks[t]).pc \in {"after", "ret"}
        /\ InNext(u, "in_on_next")
        /\ Top(stacks[u]).idx >= 1

\* C7: the driver uses the controller only while its own pointer holds it;
\* once the controller is moved into a handler the driver's pointer is empty
\* and what follows uses the handle copied before the invocation.
C7_NoUseAfterMove ==
    /\ \A k \in 1..Len(queries) : queries[k].own /\ queries[k].alive
    /\ \A t \in Threads : \A d \in 1..Len(stacks[t]) :
        (stacks[t][d].fn = "next" /\
         stacks[t][d].pc \in {"in_handler", "after"}) => ~stacks[t][d].own
    /\ \A c \in 1..Len(calls) :
        Cardinality({k \in 1..Len(queries) : queries[k].call = c}) <= 2
    /\ \A k \in ResponsesWith("internal_server_error") :
        calls[responses[k].call].req = << responses[k].req >>

\* A handler returned failure, the controller is gone, and the driver has
\* created the error response.
C7_Witness ==
    /\ ~ctl.alive
    /\ ResponsesWith("internal_server_error") # {}
    /\ Len(queries) >= 4

\* C8: a response of the driver is a not-found response of a call whose
\* on_next() reported no more handlers, or an internal-server-error response
\* of a call whose handler returned failure; a call creates at most one.
C8_OnlyTwoResponses ==
    /\ \A k \in 1..Len(responses) :
        \/ /\ responses[k].status = "not_found"
           /\ calls[responses[k].call].var = "no_more"
        \/ /\ responses[k].status = "internal_server_error"
           /\ calls[responses[k].call].var = "handler"
           /\ calls[responses[k].call].sr = "failure"
    /\ \A k, l \in 1..Len(responses) :
        responses[k].call = responses[l].call => k = l
    /\ \A c \in 1..Len(calls) :
        (calls[c].var = "handler" /\ calls[c].sr # "failure") =>
            \A k \in 1..Len(responses) : responses[k].call # c

\* Both responses occur in one traversal: a nested call found the chain
\* exhausted and the handler that made it returned failure.
C8_Witness ==
    /\ ResponsesWith("not_found") # {}
    /\ ResponsesWith("internal_server_error") # {}
    /\ \E c \in 1..Len(calls) : calls[c].sr = "ok"

CompletedOnNexts == {c \in 1..Len(calls) : calls[c].var # "none"}

OnNextContract ==
    /\ ctl.pos = Cardinality(CompletedOnNexts)
    /\ \A c \in CompletedOnNexts :
        /\ calls[c].var = "no_more" <=> calls[c].idx >= Len(chain)
        /\ calls[c].var = "handler" => calls[c].h = calls[c].idx

PositionStep ==
    /\ ctl'.pos >= ctl.pos
    /\ ctl'.pos = ctl.pos +
            (Cardinality(CompletedOnNexts') - Cardinality(CompletedOnNexts))
    /\ Cardinality(CompletedOnNexts') - Cardinality(CompletedOnNexts) <= 1

\* C9: the position of the controller never decreases, every on_next() moves
\* it one step, and on_next() reports exhaustion exactly when the position it
\* read is past the last handler, else the handler at that position.
C9_PositionMonotone == []OnNextContract /\ [][PositionStep]_vars

\* on_next() has been called past the end of a chain of at least two handlers.
C9_Witness ==
    /\ Len(chain) >= 2
    /\ ctl.pos = Len(chain) + 1
    /\ calls[Len(calls)].var = "no_more"

\* C10: request_handle() yields the request the controller was created for
\* on every call, before and after on_next(), so the not-found response goes
\* to that request.
C10_HandleStable ==
    /\ ctl.alive => request_handle(ctl) = origReq
    /\ \A c \in 1..Len(calls) : calls[c].req \in {<< >>, << origReq >>}
    /\ \A k \in ResponsesWith("not_found") : responses[k].req = origReq

\* request_handle() was called after two on_next() calls and again at
\* exhaustion, where the not-found response was created.
C10_Witness ==
    /\ Len(calls) >= 3
    /\ calls[2].req # << >>
    /\ ResponsesWith("not_found") # {}

-----------------------------------------------------------------------------
\* Deferred resumption.

\* What a traversal from position i produces when every declining handler
\* passes through synchronously: the handlers invoked and the statuses sent.
RECURSIVE SyncWalk(_)
SyncWalk(i) ==
    IF i >= Len(chain)
    THEN [inv |-> << >>, resp |-> << "not_found" >>]
    ELSE IF Declines(HandlerAt(i))
         THEN [inv |-> << i >> \o SyncWalk(i + 1).inv,
               resp |-> SyncWalk(i + 1).resp]
         ELSE [inv |-> << i >>,
               resp |-> IF HandlerAt(i) = "failure"
                        THEN << "internal_server_error" >> ELSE << >>]

InvokedSeq == [k \in 1..Len(invoked) |-> invoked[k].h]
StatusSeq == [k \in 1..Len(responses) |-> responses[k].status]

\* Calls of next() made by a continuation in a context of its own.
ResumedCalls ==
    {c \in 2..Len(calls) : \A k \in 1..Len(invoked) :
        invoked[k].call = c - 1 => Defers(HandlerAt(invoked[k].h))}

\* C11: a call of next() made by the continuation of handler i reads
\* position i+1, so it dispatches handler i+1 or finds the chain exhausted,
\* and the finished traversal has invoked the handlers and sent the response
\* that synchronous pass-through produces.
C11_ResumeLikePassThrough ==
    /\ \A c \in 2..Len(calls) :
        calls[c].var # "none" =>
            /\ calls[c].idx = calls[c - 1].h + 1
            /\ calls[c].var = "no_more" <=> calls[c - 1].h = Len(chain) - 1
            /\ calls[c].var = "handler" => calls[c].h = calls[c - 1].h + 1
    /\ Done =>
        /\ InvokedSeq = SyncWalk(0).inv
        /\ StatusSeq = SyncWalk(0).resp

\* The traversal is over; handler 0 deferred, its continuation ran in another
\* context and its call dispatched handler 1.
C11_Witness ==
    /\ Done
    /\ Len(chain) >= 2
    /\ HandlerAt(0) = "defer"
    /\ 2 \in ResumedCalls
    /\ calls[2].t # 1
    /\ calls[2].h = 1

-----------------------------------------------------------------------------
\* The driver's state machine, per call of next().

RespondedBy(c) == {k \in 1..Len(responses) : responses[k].call = c}
InvokedBy(c) == {k \in 1..Len(invoked) : invoked[k].call = c}
QueriedBy(c) == {k \in 1..Len(queries) : queries[k].call = c}

DriverState(c) ==
    IF calls[c].var = "no_more" /\ RespondedBy(c) # {}
    THEN "ExhaustedResponded"
    ELSE IF calls[c].sr = "failure" /\ RespondedBy(c) # {}
    THEN "FailureResponded"
    ELSE IF calls[c].sr = "ok" THEN "OkDelegated"
    ELSE IF InvokedBy(c) # {} THEN "DispatchedToHandler"
    ELSE "Pending"

DriverTransitions ==
    { << "Pending", "DispatchedToHandler" >>,
      << "Pending", "ExhaustedResponded" >>,
      << "DispatchedToHandler", "OkDelegated" >>,
      << "DispatchedToHandler", "FailureResponded" >> }

DriverStep ==
    /\ \A c \in 1..Len(calls) :
        LET a == DriverState(c)
            b == DriverState(c)'
        IN
        /\ a = b \/ << a, b >> \in DriverTransitions
        /\ QueriedBy(c)' # QueriedBy(c) => a = "Pending"
        /\ InvokedBy(c)' # InvokedBy(c) =>
                << a, b >> = << "Pending", "DispatchedToHandler" >>
        /\ RespondedBy(c)' # RespondedBy(c) =>
                \/ << a, b >> = << "Pending", "ExhaustedResponded" >>
                \/ << a, b >> = << "DispatchedToHandler", "FailureResponded" >>
    /\ Len(calls') # Len(calls) =>
        /\ Len(calls') = Len(calls) + 1
        /\ \A n \in 1..(MaxN + 2) :
                n = Len(calls) + 1 => DriverState(n)' = "Pending"
        /\ \/ deferred /\ ~deferred'
           \/ \E t \in Threads : InHandler(t, "body") /\ ~InHandler(t, "body")'

\* C12: a call of next() moves only from Pending to Dispatched-to-Handler or
\* Exhausted-Responded and from Dispatched-to-Handler to Ok-Delegated or
\* Failure-Responded; it uses the controller only while Pending, does nothing
\* once Ok-Delegated or responded, and a further call of next() for the
\* request is made only by a handler or by a stored continuation.
C12_DriverStateMachine == [][DriverStep]_vars

\* The first call is Ok-Delegated, a continuation called next() again and that
\* later call ended Failure-Responded.
C12_Witness ==
    /\ Len(calls) >= 2
    /\ DriverState(1) = "OkDelegated"
    /\ calls[Len(calls)].t # 1
    /\ DriverState(Len(calls)) = "FailureResponded"

-----------------------------------------------------------------------------
\* Termination and nesting depth of synchronous traversals.

\* A step of a call in progress: a context that is inside next() or inside a
\* handler goes on executing.  Nothing is assumed about when stored work runs.
ThreadStep ==
    \E t \in Threads :
        \/ OnNextEnter(t)
        \/ OnNextExit(t)
        \/ VisitHandlerCapture(t)
        \/ VisitHandlerInvoke(t)
        \/ VisitHandlerAfter(t)
        \/ VisitNoMore(t)
        \/ NextReturn(t)
        \/ HandlerPass(t)
        \/ HandlerDefer(t)
        \/ HandlerReturn(t)

SpecLive == Init /\ [][Next]_vars /\ WF_vars(ThreadStep)

\* Every handler returns at once or passes through synchronously.
SyncOnly == \A k \in 1..Len(chain) : chain[k] \in {"ok", "failure", "pass"}

\* Frames of next() on the stack of context t.
NextDepth(t) ==
    Cardinality({d \in 1..Len(stacks[t]) : stacks[t][d].fn = "next"})

\* Invoked handlers that pass through.
PassedThrough ==
    {k \in 1..Len(invoked) : Passes(HandlerAt(invoked[k].h))}

SyncDepth ==
    SyncOnly =>
        /\ \A k, l \in 1..Len(invoked) : invoked[k].h = invoked[l].h => k = l
        /\ \A t \in Threads : t # 1 => ~Running(t)
        /\ NextDepth(1) <= Len(chain) + 1
        /\ Len(calls) <= Len(chain) + 1
        /\ (Running(1) /\ Top(stacks[1]).fn = "next"
                /\ Top(stacks[1]).call = Len(calls)) =>
            NextDepth(1) = Cardinality(PassedThrough) + 1
        /\ Done => Len(calls) = Cardinality(PassedThrough) + 1

\* C13: with handlers that return at once or pass through synchronously,
\* next() on a fresh controller terminates, invokes each handler at most
\* once, and the innermost call of next() is nested as deep as the number of
\* handlers that passed through plus one, at most N+1.
C13_SyncTerminatesDepth == []SyncDepth /\ (SyncOnly ~> Done)

\* Every handler of a chain of at least two passed through: the innermost
\* call of next() is nested N+1 deep.
C13_Witness ==
    /\ SyncOnly
    /\ Len(chain) >= 2
    /\ NextDepth(1) = Len(chain) + 1
    /\ Cardinality(PassedThrough) = Len(chain)

-----------------------------------------------------------------------------
\* Response counts, whatever the handlers do.

\* Calls of next() that have returned.
ReturnedCalls ==
    {c \in 1..Len(calls) :
        \A t \in Threads : \A d \in 1..Len(stacks[t]) :
            ~(stacks[t][d].fn = "next" /\ stacks[t][d].call = c)}

ExhaustedCalls == {c \in 1..Len(calls) : calls[c].var = "no_more"}

\* C14: each call of next() creates at most one response; a call that has
\* returned created an internal-server-error response exactly if its handler
\* returned failure and a not-found response exactly if its on_next()
\* reported no more handlers, so once all calls have returned the counts of
\* the two responses equal the counts of those calls.
C14_ResponseCounts ==
    /\ \A c \in 1..Len(calls) : Cardinality(RespondedBy(c)) <= 1
    /\ \A k \in ResponsesWith("internal_server_error") :
        responses[k].call \in FailedCalls
    /\ \A k \in ResponsesWith("not_found") :
        responses[k].call \in ExhaustedCalls
    /\ \A c \in ReturnedCalls :
        /\ c \in FailedCalls <=>
            \E k \in RespondedBy(c) :
                responses[k].status = "internal_server_error"
        /\ c \in ExhaustedCalls <=>
            \E k \in RespondedBy(c) : responses[k].status = "not_found"
    /\ Done =>
        /\ Cardinality(ResponsesWith("internal_server_error")) =
                Cardinality(FailedCalls)
        /\ Cardinality(ResponsesWith("not_found")) =
                Cardinality(ExhaustedCalls)
        /\ Len(responses) =
                Cardinality(FailedCalls) + Cardinality(ExhaustedCalls)

\* All calls have returned; two handlers returned failure, one of them after
\* handing the controller on, and the driver answered each.
C14_Witness ==
    /\ Done
    /\ Cardinality(FailedCalls) = 2
    /\ Cardinality(ResponsesWith("internal_server_error")) = 2

-----------------------------------------------------------------------------
\* Sample application: routing, error handling and index safety.

\* Some request has been routed and handled.
Served == last.handler # "none" \/ last.status # "none"

\* C15: on a path matching '/:booknum(\d+)', GET is served by on_book_get,
\* PUT by on_book_update, DELETE by on_book_delete, and a request with any
\* other method gets the method-not-allowed response.
C15_BooknumRouting ==
    (Served /\ last.req.path = "/:booknum") =>
        /\ last.req.method = "GET" => last.handler = "on_book_get"
        /\ last.req.method = "PUT" => last.handler = "on_book_update"
        /\ last.req.method = "DELETE" => last.handler = "on_book_delete"
        /\ last.req.method \notin {"GET", "PUT", "DELETE"} =>
               /\ last.handler = "method_not_allowed"
               /\ last.status = "method_not_allowed"

\* What the last request asked for, and whether its body parses.
LastBody == deserialize(last.req.body)
LastNum == last.req.booknum
ValidNum == LastNum >= 1 /\ LastNum <= Len(last.before)

\* C16: on_new_book with a body that fails to parse, and on_book_update with
\* a body that fails to parse or a booknum outside 1..size, leave the
\* collection unchanged and answer bad-request; on success on_new_book
\* appends exactly one book and on_book_update replaces exactly the book at
\* index booknum-1, leaving all others unchanged.
C16_FailureLeavesBooks ==
    /\ last.handler = "on_new_book" =>
           IF LastBody.ok
           THEN m_books = Append(last.before, LastBody.book)
           ELSE m_books = last.before /\ last.status = "bad_request"
    /\ last.handler = "on_book_update" =>
           IF LastBody.ok /\ ValidNum
           THEN /\ Len(m_books) = Len(last.before)
                /\ m_books[LastNum] = LastBody.book
                /\ \A i \in 1..Len(m_books) :
                       i # LastNum => m_books[i] = last.before[i]
           ELSE m_books = last.before /\ last.status = "bad_request"

\* A new book was refused for its body while the collection had room for it.
C16_Witness ==
    /\ last.handler = "on_new_book"
    /\ ~LastBody.ok
    /\ last.status = "bad_request"
    /\ Len(last.before) < MaxBooks
    /\ m_books = last.before

\* C17: no handler reads or writes the collection at an index outside
\* 0..size-1: get, update and delete with booknum 0 or booknum > size do not
\* touch the collection, and a delete with a valid booknum removes exactly
\* the book at index booknum-1, keeping the order of the others.
C17_IndexInRange ==
    /\ \A a \in last.acc : a.idx >= 0 /\ a.idx < a.size
    /\ ( /\ last.handler \in {"on_book_get", "on_book_update",
                              "on_book_delete"}
         /\ ~ValidNum )
         => last.acc = {} /\ m_books = last.before
    /\ (last.handler = "on_book_delete" /\ ValidNum) =>
           /\ Len(m_books) = Len(last.before) - 1
           /\ \A i \in 1..Len(m_books) :
                  m_books[i] = last.before[IF i < LastNum THEN i ELSE i + 1]

\* Book number 0 was asked to be deleted from a collection that earlier
\* deletes had already shortened.
C17_Witness ==
    /\ last.handler = "on_book_delete"
    /\ LastNum = 0
    /\ Len(last.before) \in 1..(Len(InitialBooks) - 1)
    /\ last.acc = {}
    /\ m_books = last.before

====
